---- MODULE Spec2Model ----
(***************************************************************************)
(* Model of the PDF page cache of pdf-reader-gpui (src/src/lib.rs):        *)
(* the lock-protected PdfPageCacheMutableState, the worker thread          *)
(* (background_work), the foreground notifier task (foreground_work) and   *)
(* the facade PdfPageCache (set_new_pdf, clear, frame_start, get_images,   *)
(* Drop), together with the range algebra they use.                        *)
(*                                                                         *)
(* Every action below is one critical section of the mutex `state` (or a   *)
(* step that touches no shared state).  Range<usize> is a record           *)
(* [start, end]; Option<T> is the empty sequence (None) or a one-element   *)
(* sequence (Some); the slot of page index i is images[i + 1].             *)
(***************************************************************************)
EXTENDS Integers, Naturals, Sequences, FiniteSets, TLC

\* ------------------------------------------------------------------ bounds
\* Pages of the longest document of the model.
MaxPages == 2
\* Largest end of a range handed to get_images in SpecFrames: beyond
\* MaxPages, so that requests reach past the slot array, and large enough for
\* two requests with a gap between them that are not the untracked 0..1.
MaxIndex == 4
\* Largest start or end of an operand of the range algebra in SpecAlgebra.
MaxCoord == 3
\* Pages of the document of SpecScan.
ScanPages == 5
\* Records the bulk-free arena of SpecArena holds.  The program's array has
\* 1024 * 1024 records; the model keeps the structure and shrinks the array.
ArenaCapacity == 3
\* Tabs a TabsView of SpecTabs holds at most.
MaxTabs == 3
\* Calls of with_allocator nested in one another in SpecAllocator.
MaxDepth == 3

\* ------------------------------------------------------------- Option<T>
None == <<>>
Some(x) == <<x>>
IsSome(o) == o # <<>>
Unwrap(o) == o[1]

\* ---------------------------------------------------------- Range<usize>
Range(s, e) == [start |-> s, end |-> e]
EmptyRange == Range(0, 0)
\* ExactSizeIterator::len of Range<usize>: 0 when start >= end.
RangeLen(r) == IF r.end > r.start THEN r.end - r.start ELSE 0
\* Range::contains
RangeContains(r, i) == r.start <= i /\ i < r.end
Min(x, y) == IF x <= y THEN x ELSE y
Max(x, y) == IF x >= y THEN x ELSE y
\* usize::saturating_sub
SaturatingSub(x, y) == IF x >= y THEN x - y ELSE 0
\* usize::abs_diff
AbsDiff(x, y) == IF x >= y THEN x - y ELSE y - x

range_union_first_start(a, b) ==
    IF RangeLen(a) = 0 /\ RangeLen(b) = 0 THEN EmptyRange
    ELSE IF RangeLen(b) = 0 THEN a
    ELSE IF RangeLen(a) = 0 THEN b
    ELSE Range(a.start, Max(a.end, b.end))
range_union_hull(a, b) ==
    Range(Min(a.start, b.start), Max(a.end, b.end))
range_union(a, b) ==
    IF RangeLen(a) = 0 /\ RangeLen(b) = 0 THEN EmptyRange
    ELSE IF RangeLen(b) = 0 THEN a
    ELSE IF RangeLen(a) = 0 THEN b
    ELSE Range(Min(a.start, b.start), Max(a.end, b.end))
range_is_contiguous(a, b) ==
    RangeLen(range_union(a, b)) <= RangeLen(a) + RangeLen(b)
range_intersection_unclamped(a, b) ==
    Range(Max(a.start, b.start), Min(a.end, b.end))
range_intersection(a, b) ==
    LET start == Max(a.start, b.start)
    IN  Range(start, Max(Min(a.end, b.end), start))

\* ------------------------------------------------- documents and settings
\* Arc<Pdf> handles, compared by address (Arc::ptr_eq).
Docs == {"docA", "docB"}
\* The document of the end-to-end scenario and the number of its pages.
E2EDoc == "doc10"
E2EPages == 10
\* The document of SpecScan.
ScanDoc == "docS"
\* pdf.pages().len()
PageCount(d) ==
    IF d = "docA" THEN MaxPages
    ELSE IF d = "docB" THEN MaxPages - 1
    ELSE IF d = ScanDoc THEN ScanPages
    ELSE E2EPages
\* RenderSettings2 values: the default one (x_scale = y_scale = 1, which
\* PdfPageCache::new and clear() install) and a zoomed one.
DefaultSettings == "scale1"
Settings == {"scale1", "scale2"}
\* #[derive(PartialEq)] on RenderSettings2.
SettingsEq(a, b) == a = b

\* The image rasterize_pdf_page produces: it is a function of the page it
\* was handed (document, index) and of the settings.
Image(d, c, i) == [doc |-> d, cfg |-> c, page |-> i]

\* Vec of n empty slots (images.clear(); images.resize_with(n, || None)).
EmptySlots(n) == [k \in 1..n |-> None]

VARIABLES
    images,              \* PdfPageCacheMutableState::images
    render_settings,     \* PdfPageCacheMutableState::render_settings
    pdf,                 \* PdfPageCacheMutableState::pdf
    wake_future,         \* PdfPageCacheMutableState::wake_future is Some
    requested_pages,     \* PdfPageCacheMutableState::requested_pages
    acknowledged_pages,  \* PdfPageCacheMutableState::acknowledged_pages
    should_quit,         \* PdfPageCacheMutableState::should_quit
    pages_this_frame,    \* PdfPageCache::pages_this_frame
    pages_last_frame,    \* PdfPageCache::pages_last_frame
    facade_pc,           \* where the owner of the PdfPageCache is
    parent_alive,        \* foreground_work: parent (WeakEntity) upgrades
    worker_pc,           \* where background_work is
    worker_index,        \* background_work: index (during a render)
    worker_pdf,          \* background_work: pdf (during a render)
    worker_settings,     \* background_work: render_settings (during a render)
    worker_notified,     \* wake_worker.notify_all() reached the waiting worker
    worker_guard,        \* background_work: guard holds the lock between steps
    notifier_pc,         \* where foreground_work is
    rendered_images,     \* foreground_work: rendered_images
    last,                \* the step just taken, its input and its result
    range_a,             \* range algebra: the first operand
    range_b,             \* range algebra: the second operand
    range_out,           \* range algebra: the function applied and its result
    allocations,         \* BulkFreeAlloc::allocations: (count, records)
    heap,                \* pointers live in BulkFreeAlloc::allocator
    held,                \* pointers the rasterizer was handed and has not freed
    images_out,          \* pixel buffers handed over to a RenderImage
    raster_pc,           \* where rasterize_pdf_page is
    raster_data,         \* rasterize_pdf_page: data.as_mut_ptr()
    arena_last,          \* the arena operation just made and its result
    tabs,                \* TabsView::tabs
    active_tab,          \* TabsView::active_tab
    tabs_last,           \* the TabsView operation just made and the state before
    current_allocator,   \* allocator.rs: CURRNET_ALLOCATOR of the thread
    alloc_stack,         \* the TempUsed guards of the with_allocator calls
    alloc_unwinding,     \* a panic is unwinding the thread's stack
    alloc_last           \* the with_allocator step just made

shared == <<images, render_settings, pdf, wake_future, requested_pages,
            acknowledged_pages, should_quit>>
frames == <<pages_this_frame, pages_last_frame>>
worker == <<worker_pc, worker_index, worker_pdf, worker_settings,
            worker_notified, worker_guard>>
notifier == <<notifier_pc, rendered_images>>
\* The operands and the result of an application of the range algebra.
algebra == <<range_a, range_b, range_out>>
\* The state outside the page cache, which no operation of the cache touches.
\* The bulk-free arena of the worker thread and the heap under it.
arena == <<allocations, heap, held, images_out, raster_pc, raster_data,
           arena_last>>
\* The tab strip.
tabsview == <<tabs, active_tab, tabs_last>>
\* The thread's current allocator of allocator.rs.
scoped == <<current_allocator, alloc_stack, alloc_unwinding, alloc_last>>
outside_cache == <<algebra, arena, tabsview, scoped>>
\* The state of the page cache.
cache == <<images, render_settings, pdf, wake_future, requested_pages,
           acknowledged_pages, should_quit, pages_this_frame,
           pages_last_frame, facade_pc, parent_alive, worker_pc, worker_index,
           worker_pdf, worker_settings, worker_notified, worker_guard,
           notifier_pc,
           rendered_images, last>>
vars == <<images, render_settings, pdf, wake_future, requested_pages,
          acknowledged_pages, should_quit, pages_this_frame,
          pages_last_frame, facade_pc, parent_alive, worker_pc, worker_index,
          worker_pdf, worker_settings, worker_notified, worker_guard,
          notifier_pc,
          rendered_images, last, range_a, range_b, range_out, allocations,
          heap, held, images_out, raster_pc, raster_data, arena_last,
          tabs, active_tab, tabs_last, current_allocator, alloc_stack,
          alloc_unwinding, alloc_last>>

\* `last` records the step just taken: its name, its input, what it returned
\* and, for get_images, the value pages_this_frame had when it was called,
\* for a pass of the worker the slots it found.
StepFrom(op, arg, ret, pre) == [op |-> op, arg |-> arg, ret |-> ret, pre |-> pre]
Step(op, arg, ret) == StepFrom(op, arg, ret, None)

\* ---------------------------------------------------------------- waking
\* Waker::wake on the notifier task's waker: a suspended task is scheduled.
WakeLost(pc) == pc
WakeTask(pc) == IF pc = "suspended" THEN "ready" ELSE pc
\* if let Some(waker) = guard.wake_future.take() { waker.wake(); }
WakeWithoutTake ==
    /\ wake_future' = wake_future
    /\ notifier_pc' = IF wake_future THEN WakeTask(notifier_pc)
                      ELSE notifier_pc
TakeAndWake ==
    /\ wake_future' = FALSE
    /\ notifier_pc' = IF wake_future THEN WakeTask(notifier_pc)
                      ELSE notifier_pc
\* Condvar::notify_all: only a thread blocked in wait_while is woken.
NotifyNobody == worker_notified' = worker_notified
NotifyAll == worker_notified' = (worker_pc = "wait")

\* No function of the range algebra has been applied.
NoApplication == [op |-> "none", val |-> None]
AlgebraIdle ==
    /\ range_a = EmptyRange
    /\ range_b = EmptyRange
    /\ range_out = NoApplication

\* std::ptr::null_mut()
NullPtr == 0
\* BulkFreeAlloc::new: no record in use, every record EMPTY_SLOT.  A record
\* is the pointer of the (pointer, layout) pair.
NewArena == [count |-> 0, slots |-> [k \in 1..ArenaCapacity |-> NullPtr]]
\* What an arena operation leaves in arena_last.
ArenaStep(op, arg, ret) == [op |-> op, arg |-> arg, ret |-> ret]
ArenaIdle ==
    /\ allocations = NewArena
    /\ heap = {}
    /\ held = {}
    /\ images_out = {}
    /\ raster_pc = "idle"
    /\ raster_data = NullPtr
    /\ arena_last = ArenaStep("new", NullPtr, NullPtr)

\* TabsView::new: one empty tab, which is active.  A tab is its data and an
\* identity, by which the model tells the elements of the Vec apart.
Tab(id, data) == [id |-> id, data |-> data]
TabsStep(op, arg) ==
    [op |-> op, arg |-> arg, tabs |-> tabs, active |-> active_tab]
TabsNew ==
    /\ tabs = <<Tab(1, None)>>
    /\ active_tab = 0
    /\ tabs_last = [op |-> "new", arg |-> None, tabs |-> <<>>, active |-> 0]

\* CURRNET_ALLOCATOR: const { Cell::new(None) }, and no call of
\* with_allocator in progress.
NoAllocatorInstalled ==
    /\ current_allocator = None
    /\ alloc_stack = <<>>
    /\ alloc_unwinding = FALSE
    /\ alloc_last = [op |-> "new", arg |-> None]
\* The state outside the page cache, the range algebra and the arena.
RestIdle == TabsNew /\ NoAllocatorInstalled

\* PdfPageCache::new
NewCache ==
    /\ images = EmptySlots(0)
    /\ render_settings = DefaultSettings
    /\ pdf = None
    /\ wake_future = FALSE
    /\ requested_pages = EmptyRange
    /\ acknowledged_pages = EmptyRange
    /\ should_quit = FALSE
    /\ pages_this_frame = EmptyRange
    /\ pages_last_frame = EmptyRange
    /\ facade_pc = "idle"
    /\ parent_alive = TRUE
    /\ worker_pc = "scan"
    /\ worker_index = 0
    /\ worker_pdf = None
    /\ worker_settings = DefaultSettings
    /\ worker_notified = FALSE
    /\ worker_guard = FALSE
    /\ notifier_pc = "ready"
    /\ rendered_images = <<>>
    /\ last = Step("new", None, None)

Init ==
    /\ NewCache
    /\ AlgebraIdle
    /\ ArenaIdle
    /\ RestIdle

\* ------------------------------------------------------------ the facade
\* The owner of the PdfPageCache runs on the thread of the display layer; a
\* call is possible while no other call of that thread is in progress.
\* foreground_work runs on the same thread: between a poll that completed
\* and the next poll of the same run of the task, no call is made.
FacadeIdle == facade_pc = "idle" /\ notifier_pc \notin {"redraw", "repoll"}
\* self.shared.state.lock() returns: the worker's guard does not hold the
\* lock.  Every other guard lives inside one step.
LockFree == ~worker_guard

\* Ranges the display layer hands to get_images in Spec: every one-page
\* range up to the page after the last page of the longest document.
PageRanges == {Range(s, s + 1) : s \in 0..MaxPages}
\* Ranges the display layer hands to get_images in SpecFrames: the empty
\* range, every one-page range up to MaxIndex, and a two-page range that
\* reaches past the last slot of the document.  Longer values of
\* pages_this_frame arise from contiguous requests of one frame.
VisibleRanges ==
    {EmptyRange} \cup {Range(s, s + 1) : s \in 0..(MaxIndex - 1)}
        \cup {Range(MaxPages - 1, MaxPages + 1)}

\* PdfPageCacheMutableState::set_new_pdf (pdf is an Option<Arc<Pdf>>)
NewSlotsResizedInPlace(old, p) ==
    LET n == IF IsSome(p) THEN PageCount(Unwrap(p)) ELSE 0
    IN  [k \in 1..n |-> IF k <= Len(old) THEN old[k] ELSE None]
NewSlotsWithSpare(old, p) ==
    IF IsSome(p) THEN EmptySlots(PageCount(Unwrap(p)) + 1) ELSE EmptySlots(0)
NewSlotsKeptOnClear(old, p) ==
    IF IsSome(p) THEN EmptySlots(PageCount(Unwrap(p))) ELSE old
NewSlots(old, p) ==
    IF IsSome(p) THEN EmptySlots(PageCount(Unwrap(p))) ELSE EmptySlots(0)
MutableState_set_new_pdf_keeps_acknowledged(p, c) ==
    /\ images' = NewSlots(images, p)
    /\ requested_pages' = EmptyRange
    /\ acknowledged_pages' = acknowledged_pages
    /\ render_settings' = c
    /\ pdf' = p
MutableState_set_new_pdf(p, c) ==
    /\ images' = NewSlots(images, p)
    /\ requested_pages' = EmptyRange
    /\ acknowledged_pages' = EmptyRange
    /\ render_settings' = c
    /\ pdf' = p

\* PdfPageCache::set_new_pdf
set_new_pdf(p, c) ==
    /\ FacadeIdle
    /\ LockFree
    /\ MutableState_set_new_pdf(p, c)
    /\ last' = Step("set_new_pdf", <<p, c>>, None)
    /\ UNCHANGED <<wake_future, should_quit, frames, facade_pc, parent_alive,
                   worker, notifier>>
    /\ UNCHANGED outside_cache

\* PdfPageCache::clear
clear ==
    /\ FacadeIdle
    /\ LockFree
    /\ MutableState_set_new_pdf(None, DefaultSettings)
    /\ last' = Step("clear", None, None)
    /\ UNCHANGED <<wake_future, should_quit, frames, facade_pc, parent_alive,
                   worker, notifier>>
    /\ UNCHANGED outside_cache

\* PdfPageCache::frame_start
frame_start_reset_first ==
    /\ FacadeIdle
    /\ pages_this_frame' = EmptyRange
    /\ pages_last_frame' = pages_this_frame'
    /\ last' = Step("frame_start", None, None)
    /\ UNCHANGED <<shared, facade_pc, parent_alive, worker, notifier>>
    /\ UNCHANGED outside_cache
frame_start ==
    /\ FacadeIdle
    /\ pages_last_frame' = pages_this_frame
    /\ pages_this_frame' = EmptyRange
    /\ last' = Step("frame_start", None, None)
    /\ UNCHANGED <<shared, facade_pc, parent_alive, worker, notifier>>
    /\ UNCHANGED outside_cache

\* <[T]>::get(Range<usize>): None when the range is reversed or ends beyond
\* the slice.
SliceGet(s, r) ==
    IF r.start <= r.end /\ r.end <= Len(s)
    THEN Some(SubSeq(s, r.start + 1, r.end))
    ELSE None
\* get_images, the snapshot it returns.
SnapshotOrEmpty(s, r) ==
    IF IsSome(SliceGet(s, r)) THEN Unwrap(SliceGet(s, r)) ELSE <<>>
Snapshot(s, r) ==
    IF IsSome(SliceGet(s, r)) THEN Unwrap(SliceGet(s, r))
    ELSE [k \in 1..RangeLen(r) |-> None]
\* get_images, the test that leaves the request untracked.
IsFirstPageOnlyNever(r) == FALSE
IsFirstPageOnly(r) == r.start = 0 /\ r.end = 1
\* get_images, the new pages_this_frame.
TrackAlwaysUnion(this, r) == range_union(this, r)
Track(this, r) ==
    IF RangeLen(this) = 0 \/ ~range_is_contiguous(this, r)
    THEN r
    ELSE range_union(this, r)

\* PdfPageCache::get_images, up to the release of the lock.
get_images(r) ==
    /\ FacadeIdle
    /\ LockFree
    /\ last' = StepFrom("get_images", r, Snapshot(images, r), pages_this_frame)
    /\ IF IsFirstPageOnly(r)
       THEN UNCHANGED <<shared, frames, facade_pc, notifier>>
       ELSE /\ pages_this_frame' = Track(pages_this_frame, r)
            /\ requested_pages' =
                    range_union(pages_this_frame', pages_last_frame)
            /\ IF requested_pages' # acknowledged_pages
               THEN /\ TakeAndWake
                    /\ facade_pc' = "notify"
               ELSE UNCHANGED <<wake_future, notifier_pc, facade_pc>>
            /\ UNCHANGED <<images, render_settings, pdf, acknowledged_pages,
                           should_quit, pages_last_frame, rendered_images>>
    /\ UNCHANGED <<parent_alive, worker>>
    /\ UNCHANGED outside_cache

\* PdfPageCache::get_images, self.shared.wake_worker.notify_all()
get_images_notify ==
    /\ facade_pc = "notify"
    /\ NotifyAll
    /\ facade_pc' = "idle"
    /\ last' = Step("get_images_notify", None, None)
    /\ UNCHANGED <<shared, frames, parent_alive, worker_pc, worker_index,
                   worker_pdf, worker_settings, worker_guard, notifier>>
    /\ UNCHANGED outside_cache

\* Drop for PdfPageCache, up to drop(guard): the flag is set and the waker
\* is taken out of wake_future into the local `waker`, which facade_pc
\* records ("drop_wake" when there is one).
drop ==
    /\ facade_pc = "idle"
    /\ notifier_pc \notin {"redraw", "repoll"}
    /\ LockFree
    /\ should_quit' = TRUE
    /\ wake_future' = FALSE
    /\ facade_pc' = IF wake_future THEN "drop_wake" ELSE "drop_notify"
    /\ last' = Step("drop", None, wake_future)
    /\ UNCHANGED <<images, render_settings, pdf, requested_pages,
                   acknowledged_pages, frames, parent_alive, worker,
                   notifier>>
    /\ UNCHANGED outside_cache

\* Drop for PdfPageCache, if let Some(waker) = waker { waker.wake(); }: the
\* lock has been released, and the worker may have run since.
drop_wake ==
    /\ facade_pc = "drop_wake"
    /\ notifier_pc' = WakeTask(notifier_pc)
    /\ facade_pc' = "drop_notify"
    /\ last' = Step("drop_wake", None, None)
    /\ UNCHANGED <<shared, frames, parent_alive, worker, rendered_images>>
    /\ UNCHANGED outside_cache

\* Drop for PdfPageCache, self.shared.wake_worker.notify_all(); the fields of
\* the cache are dropped after it (pages_this_frame and pages_last_frame
\* cease to exist, which the model records as the empty range).
drop_notify ==
    /\ facade_pc = "drop_notify"
    /\ NotifyAll
    /\ facade_pc' = "dropped"
    /\ pages_this_frame' = EmptyRange
    /\ pages_last_frame' = EmptyRange
    /\ last' = Step("drop_notify", None, None)
    /\ UNCHANGED <<shared, parent_alive, worker_pc, worker_index,
                   worker_pdf, worker_settings, worker_guard, notifier>>
    /\ UNCHANGED outside_cache

\* ------------------------------------------------------------ the worker
\* background_work: wanted_pages
wanted_pages_no_prewarm(req) == req
wanted_pages(req) == Range(SaturatingSub(req.start, 1), req.end)
\* background_work: center
center_from_start(req) ==
    LET w == wanted_pages(req)
    IN  w.start + (RangeLen(w) \div 2)
center(req) ==
    LET w == wanted_pages(req)
    IN  SaturatingSub(w.end, 1 + (RangeLen(w) \div 2))
\* background_work: cache_first_image
cache_first_image_always(req) == TRUE
cache_first_image(req) == req.start <= 1
\* background_work: should_cache
should_cache(index, req) ==
    IF index = 0 THEN cache_first_image(req)
    ELSE RangeContains(wanted_pages(req), index)
\* background_work: the slots after the loop over images.iter_mut()
EvictedLazily(imgs, req) == imgs
Evicted(imgs, req) ==
    [k \in 1..Len(imgs) |->
        IF should_cache(k - 1, req) THEN imgs[k] ELSE None]
\* background_work: the loop over images.iter_mut(), from `index` on, with
\* the (index_to_render, chose_index_distance) found so far.  A distance of
\* None stands for usize::MAX, which no abs_diff of a slot index reaches.
RECURSIVE ScanFrom(_, _, _, _)
ScanFrom(imgs, req, index, chosen) ==
    IF index >= Len(imgs) THEN chosen.index
    ELSE LET distance == AbsDiff(index, center(req))
             closer == /\ should_cache(index, req)
                       /\ imgs[index + 1] = None
                       /\ \/ chosen.distance = None
                          \/ distance < Unwrap(chosen.distance)
         IN  ScanFrom(imgs, req, index + 1,
                      IF closer
                      THEN [index |-> Some(index), distance |-> Some(distance)]
                      ELSE chosen)
\* background_work: index_to_render
index_to_render(imgs, req) ==
    ScanFrom(imgs, req, 0, [index |-> None, distance |-> None])

\* background_work: the condition of wake_worker.wait_while
MustWait == ~should_quit /\ acknowledged_pages = requested_pages

\* background_work: whether guard still holds the lock when the pass through
\* the top of the loop ends.  drop(guard) precedes rasterize_pdf_page,
\* wait_while releases the lock and returning drops the guard; `continue`
\* keeps it.
HeldAcrossRender(index, doc) == IsSome(index)
HeldAfterScan(index, doc) == IsSome(index) /\ doc = None

\* background_work, from the top of the loop to the release of the lock:
\* either by drop(guard) before rasterize_pdf_page, or inside wait_while, or
\* by returning.
WorkerScan ==
    /\ worker_pc = "scan"
    /\ images' = Evicted(images, requested_pages)
    /\ acknowledged_pages' = requested_pages
    /\ LET index == index_to_render(images, requested_pages)
       IN  /\ last' = StepFrom("worker_scan", requested_pages, index, images)
           /\ worker_guard' = HeldAfterScan(index, pdf)
           /\ IF IsSome(index)
              THEN IF pdf = None
                   THEN \* continue
                        UNCHANGED <<worker_pc, worker_index, worker_pdf,
                                    worker_settings, worker_notified>>
                   ELSE /\ worker_pc' = "render"
                        /\ worker_index' = Unwrap(index)
                        /\ worker_pdf' = pdf
                        /\ worker_settings' = render_settings
                        /\ UNCHANGED worker_notified
              ELSE /\ worker_pc' = IF should_quit THEN "done" ELSE "wait"
                   /\ worker_notified' = FALSE
                   /\ UNCHANGED <<worker_index, worker_pdf, worker_settings>>
    /\ UNCHANGED <<render_settings, pdf, wake_future, requested_pages,
                   should_quit, frames, facade_pc, parent_alive, notifier>>
    /\ UNCHANGED outside_cache

\* background_work: the test made before the rendered image is saved
StillCurrentIgnoringDocument ==
    SettingsEq(render_settings, worker_settings)
StillCurrentNever == FALSE
StillCurrent ==
    /\ SettingsEq(render_settings, worker_settings)
    /\ IsSome(pdf)
    /\ Unwrap(pdf) = Unwrap(worker_pdf)

\* background_work, from the return of rasterize_pdf_page (the lock is taken
\* again) to the end of the loop body.  The worker goes on to the next pass
\* with the lock held, unless it returns.
WorkerCommit ==
    /\ worker_pc = "render"
    /\ LET new_image ==
               Image(Unwrap(worker_pdf), worker_settings, worker_index)
       IN  IF StillCurrent /\ worker_index < Len(images)
           THEN /\ images' = [images EXCEPT ![worker_index + 1] =
                                                Some(new_image)]
                /\ TakeAndWake
                /\ last' = Step("worker_commit",
                                 <<worker_index, worker_pdf, worker_settings>>,
                                 TRUE)
           ELSE /\ UNCHANGED <<images, wake_future, notifier_pc>>
                /\ last' = Step("worker_commit",
                                 <<worker_index, worker_pdf, worker_settings>>,
                                 FALSE)
    /\ worker_pc' = IF should_quit THEN "done" ELSE "scan"
    /\ worker_guard' = ~should_quit
    /\ worker_index' = 0
    /\ worker_pdf' = None
    /\ worker_settings' = DefaultSettings
    /\ UNCHANGED <<render_settings, pdf, requested_pages, acknowledged_pages,
                   should_quit, frames, facade_pc, parent_alive,
                   worker_notified, rendered_images>>
    /\ UNCHANGED outside_cache

\* background_work: rasterize_pdf_page hands back an Arc<RenderImage> and no
\* error value; a rasterizer that cannot produce the pixels panics (render
\* itself, or expect("incorrect image dimensions")).  The panic unwinds the
\* worker thread, which holds no lock at that point and catches nothing.
rasterize_panics ==
    /\ worker_pc = "render"
    /\ worker_pc' = "panicked"
    /\ last' = Step("rasterize_panics",
                     <<worker_index, worker_pdf, worker_settings>>, None)
    /\ worker_index' = 0
    /\ worker_pdf' = None
    /\ worker_settings' = DefaultSettings
    /\ UNCHANGED <<shared, frames, facade_pc, parent_alive, worker_notified,
                   worker_guard, notifier>>
    /\ UNCHANGED outside_cache

\* background_work: the worker, notified while blocked in wait_while, takes
\* the lock and tests the condition again; when wait_while returns the worker
\* holds the lock.
WorkerWake ==
    /\ worker_pc = "wait"
    /\ worker_notified
    /\ worker_notified' = FALSE
    /\ worker_pc' = IF MustWait THEN "wait"
                    ELSE IF should_quit THEN "done" ELSE "scan"
    /\ worker_guard' = (~MustWait /\ ~should_quit)
    /\ last' = Step("worker_wake", None, ~MustWait)
    /\ UNCHANGED <<shared, frames, facade_pc, parent_alive, worker_index,
                   worker_pdf, worker_settings, notifier>>
    /\ UNCHANGED outside_cache

\* ---------------------------------------------------------- the notifier
\* The task runs on the thread of the display layer, between its calls.
NotifierMayRun == facade_pc \in {"idle", "dropped"}

\* WaitForChange::poll: rendered_images.resize_with(images.len(), || false)
NotResized(bits, n) == bits
Resized(bits, n) ==
    [k \in 1..n |-> IF k <= Len(bits) THEN bits[k] ELSE FALSE]
\* WaitForChange::poll: cache.is_some() of every slot
CachedBits(imgs) == [k \in 1..Len(imgs) |-> IsSome(imgs[k])]

\* WaitForChange::poll, and what foreground_work does with Poll::Ready(true)
NotifierPoll ==
    /\ notifier_pc \in {"ready", "repoll"}
    /\ NotifierMayRun
    /\ LockFree
    /\ LET changed_state ==
               Resized(rendered_images, Len(images)) # CachedBits(images)
       IN  /\ rendered_images' = CachedBits(images)
           /\ IF should_quit \/ changed_state
              THEN /\ notifier_pc' = IF should_quit THEN "done" ELSE "redraw"
                   /\ UNCHANGED wake_future
              ELSE /\ notifier_pc' = "suspended"
                   /\ wake_future' = TRUE
           /\ last' = Step("poll", None, <<should_quit, changed_state>>)
    /\ UNCHANGED <<images, render_settings, pdf, requested_pages,
                   acknowledged_pages, should_quit, frames, facade_pc,
                   parent_alive, worker>>
    /\ UNCHANGED outside_cache

\* foreground_work: parent.update(window, |_, cx| cx.notify())
NotifierRedrawIgnoringFailure ==
    /\ notifier_pc = "redraw"
    /\ notifier_pc' = "repoll"
    /\ last' = Step("redraw", None, parent_alive)
    /\ UNCHANGED <<shared, frames, facade_pc, parent_alive, worker,
                   rendered_images>>
    /\ UNCHANGED outside_cache
NotifierRedraw ==
    /\ notifier_pc = "redraw"
    /\ notifier_pc' = IF parent_alive THEN "repoll" ELSE "done"
    /\ last' = Step("redraw", None, parent_alive)
    /\ UNCHANGED <<shared, frames, facade_pc, parent_alive, worker,
                   rendered_images>>
    /\ UNCHANGED outside_cache

\* PdfPageCache::_ui_updater is dropped with the cache: the task is not
\* polled again.
NotifierCancel ==
    /\ facade_pc = "dropped"
    /\ notifier_pc \in {"ready", "suspended"}
    /\ notifier_pc' = "done"
    /\ last' = Step("cancel", None, None)
    /\ UNCHANGED <<shared, frames, facade_pc, parent_alive, worker,
                   rendered_images>>
    /\ UNCHANGED outside_cache

\* foreground_work: the view or its window goes away ("parent view
\* dropped"), after which parent.update returns Err.  It happens on the
\* thread of the display layer, between two runs of the task.
parent_released ==
    /\ parent_alive
    /\ notifier_pc \notin {"redraw", "repoll"}
    /\ parent_alive' = FALSE
    /\ last' = Step("parent_released", None, None)
    /\ UNCHANGED <<shared, frames, facade_pc, worker, notifier>>
    /\ UNCHANGED outside_cache

\* ----------------------------------------------------- the specifications
Worker == WorkerScan \/ WorkerCommit \/ WorkerWake

Notifier == NotifierPoll \/ NotifierRedraw \/ NotifierCancel

\* Spec: the display layer loads either document under either settings and
\* shows one page at a time.
Facade ==
    \/ \E d \in Docs, c \in Settings : set_new_pdf(Some(d), c)
    \/ clear
    \/ frame_start
    \/ \E r \in PageRanges : get_images(r)
    \/ get_images_notify
    \/ drop
    \/ drop_wake
    \/ drop_notify

Next == Facade \/ Worker \/ Notifier

Spec == Init /\ [][Next]_vars

\* SpecFrames: the display layer loads one document and shows any of
\* VisibleRanges, several per frame.
FramesFacade ==
    \/ set_new_pdf(Some("docA"), DefaultSettings)
    \/ clear
    \/ frame_start
    \/ \E r \in VisibleRanges : get_images(r)
    \/ get_images_notify
    \/ drop
    \/ drop_wake
    \/ drop_notify

NextFrames == FramesFacade \/ Worker \/ Notifier

SpecFrames == Init /\ [][NextFrames]_vars

\* SpecFair: the display layer loads one document and shows one page at a
\* time, under the scheduling the program runs with.  The worker
\* is a thread of its own and the rasterizer returns; the executor of the
\* display layer polls a scheduled task and runs it up to its next await;
\* a call of the facade that has begun runs to its end.
Scheduling ==
    /\ WF_vars(WorkerScan)
    /\ WF_vars(WorkerCommit)
    /\ WF_vars(WorkerWake)
    /\ WF_vars(NotifierPoll)
    /\ WF_vars(NotifierRedraw)
    /\ WF_vars(get_images_notify)
    /\ WF_vars(drop_wake)
    /\ WF_vars(drop_notify)

FairFacade ==
    \/ set_new_pdf(Some("docA"), DefaultSettings)
    \/ clear
    \/ frame_start
    \/ \E r \in PageRanges : get_images(r)
    \/ get_images_notify
    \/ drop
    \/ drop_wake
    \/ drop_notify

NextFair == FairFacade \/ Worker \/ Notifier

SpecFair == Init /\ [][NextFair]_vars /\ Scheduling

\* SpecPoll: as SpecFair, and the executor gets to poll a scheduled notifier
\* although the lock it needs is taken and released by others again and
\* again.
PollScheduling == Scheduling /\ SF_vars(NotifierPoll)

SpecPoll == Init /\ [][NextFair]_vars /\ PollScheduling

\* SpecTeardown: as SpecFair without its scheduling, and the view may go away
\* while the cache is still in use.
NextTeardown == FairFacade \/ parent_released \/ Worker \/ Notifier

SpecTeardown == Init /\ [][NextTeardown]_vars

\* SpecFailure: as SpecTeardown with a view that stays, and a rasterizer
\* that may fail on any page.
NextFailure == FairFacade \/ Worker \/ rasterize_panics \/ Notifier

SpecFailure == Init /\ [][NextFailure]_vars

\* SpecShow: the display layer loads docA once, at any moment of the
\* worker's start, and from then on draws frame after frame, each a
\* frame_start followed by get_images of one and the same range, which
\* range_a holds.  A frame that asks for 0..1 leaves pages_this_frame empty,
\* so its frame_start changes nothing and may come at any time.
ShowRanges ==
    {r \in {Range(s, e) : s \in 0..(MaxPages - 1), e \in 1..MaxPages} :
        r.start < r.end}

InitShow ==
    /\ NewCache
    /\ ArenaIdle
    /\ RestIdle
    /\ range_a \in ShowRanges
    /\ range_b = EmptyRange
    /\ range_out = NoApplication

ShowLoad ==
    /\ pdf = None
    /\ set_new_pdf(Some("docA"), DefaultSettings)

ShowFrameStart ==
    /\ pdf # None
    /\ pages_this_frame # EmptyRange \/ IsFirstPageOnly(range_a)
    /\ frame_start

ShowGetImages ==
    /\ pdf # None
    /\ pages_this_frame = EmptyRange
    /\ get_images(range_a)

ShowScheduling ==
    /\ WF_vars(WorkerScan)
    /\ WF_vars(WorkerCommit)
    /\ WF_vars(WorkerWake)
    /\ WF_vars(NotifierPoll)
    /\ WF_vars(NotifierRedraw)
    /\ WF_vars(ShowLoad)
    /\ WF_vars(ShowFrameStart)
    /\ WF_vars(ShowGetImages)
    /\ WF_vars(get_images_notify)

NextShow ==
    \/ ShowLoad
    \/ ShowFrameStart
    \/ ShowGetImages
    \/ get_images_notify
    \/ Worker
    \/ NotifierPoll
    \/ NotifierRedraw

SpecShow == InitShow /\ [][NextShow]_vars /\ ShowScheduling

\* SpecSettle: the worker and the calls that give it work within one frame.
\* The cache is never dropped; the display layer loads one document under
\* either settings and shows one page at a time, pages next to one another
\* adding up to longer requests.  The worker is a thread of its own and the
\* rasterizer returns; a call of get_images that has begun runs to its end.
\* The notifier task is polled as the executor of the display layer sees
\* fit: the worker never waits for it.
SettleFacade ==
    \/ \E c \in Settings : set_new_pdf(Some("docA"), c)
    \/ \E r \in PageRanges : get_images(r)
    \/ get_images_notify

SettleScheduling ==
    /\ WF_vars(WorkerScan)
    /\ WF_vars(WorkerCommit)
    /\ WF_vars(WorkerWake)
    /\ WF_vars(get_images_notify)

NextSettle == SettleFacade \/ Worker \/ NotifierPoll \/ NotifierRedraw

SpecSettle == Init /\ [][NextSettle]_vars /\ SettleScheduling

\* ------------------------------------------------- the worker's selection
\* SpecScan: the worker's passes over a document of ScanPages pages, from
\* every request and every set of cached pages of the document.
\* requested_pages is a union of ranges: 0..0 or a non-empty range.
ScanRequests ==
    {Range(s, e) : s \in 0..(ScanPages + 1), e \in 0..(ScanPages + 1)}
ScanSlots ==
    {[k \in 1..ScanPages |->
         IF k \in cached THEN Some(Image(ScanDoc, DefaultSettings, k - 1))
         ELSE None] : cached \in SUBSET (1..ScanPages)}

InitScan ==
    /\ images \in ScanSlots
    /\ render_settings = DefaultSettings
    /\ pdf = Some(ScanDoc)
    /\ wake_future = FALSE
    /\ requested_pages \in
           {r \in ScanRequests : r.start < r.end} \cup {EmptyRange}
    /\ acknowledged_pages = EmptyRange
    /\ should_quit = FALSE
    /\ pages_this_frame = requested_pages
    /\ pages_last_frame = EmptyRange
    /\ facade_pc = "idle"
    /\ parent_alive = TRUE
    /\ worker_pc = "scan"
    /\ worker_index = 0
    /\ worker_pdf = None
    /\ worker_settings = DefaultSettings
    /\ worker_notified = FALSE
    /\ worker_guard = FALSE
    /\ notifier_pc = "ready"
    /\ rendered_images = <<>>
    /\ last = Step("new", None, None)
    /\ AlgebraIdle
    /\ ArenaIdle
    /\ RestIdle

NextScan == WorkerScan \/ WorkerCommit

SpecScan == InitScan /\ [][NextScan]_vars

\* ------------------------------------------------------ the range algebra
\* SpecAlgebra: the three functions applied to every pair of ranges with
\* start and end up to MaxCoord, the empty and the reversed ones included.
Ranges == {Range(s, e) : s \in 0..MaxCoord, e \in 0..MaxCoord}
Application(op, val) == [op |-> op, val |-> val]

InitAlgebra ==
    /\ NewCache
    /\ ArenaIdle
    /\ RestIdle
    /\ range_a \in Ranges
    /\ range_b \in Ranges
    /\ range_out = NoApplication

ApplyUnion ==
    /\ range_out' = Application("range_union", range_union(range_a, range_b))
    /\ UNCHANGED <<range_a, range_b, cache, arena, tabsview, scoped>>

ApplyIsContiguous ==
    /\ range_out' = Application("range_is_contiguous",
                                range_is_contiguous(range_a, range_b))
    /\ UNCHANGED <<range_a, range_b, cache, arena, tabsview, scoped>>

ApplyIntersection ==
    /\ range_out' = Application("range_intersection",
                                range_intersection(range_a, range_b))
    /\ UNCHANGED <<range_a, range_b, cache, arena, tabsview, scoped>>

NextAlgebra == ApplyUnion \/ ApplyIsContiguous \/ ApplyIntersection

SpecAlgebra == InitAlgebra /\ [][NextAlgebra]_vars

\* -------------------------------------------------- the bulk-free arena
\* Addresses the allocator under the arena hands out; an address is handed
\* out again after it was freed.
Ptrs == 1..(ArenaCapacity + 2)

\* BulkFreeAlloc::forget, the loop from record k down: the last record in use
\* that holds ptr becomes EMPTY_SLOT, and the count drops to its index when
\* it was the last record in use.
RECURSIVE ForgetFrom(_, _, _)
ForgetFrom(al, ptr, k) ==
    IF k = 0 THEN al
    ELSE IF al.slots[k] = ptr
         THEN [count |-> IF k = al.count THEN k - 1 ELSE al.count,
               slots |-> [al.slots EXCEPT ![k] = NullPtr]]
         ELSE ForgetFrom(al, ptr, k - 1)
\* BulkFreeAlloc::forget
forget_nothing(al, ptr) == al
forget(al, ptr) == ForgetFrom(al, ptr, al.count)

\* BulkFreeAlloc::free_all: the pointers it hands to allocator.dealloc
FreedByFreeAll(al) == {al.slots[k] : k \in 1..al.count} \ {NullPtr}
\* BulkFreeAlloc::free_all: the records after it
free_all(al) ==
    [count |-> 0,
     slots |-> [k \in 1..ArenaCapacity |->
                   IF k <= al.count THEN NullPtr ELSE al.slots[k]]]

\* The rasterize call has ended in the panic of an arena operation.  A panic
\* that leaves GlobalAlloc::alloc is undefined behaviour: the process aborts
\* or the worker thread unwinds.
Failed == {"unwinding", "aborted"}

\* CURRNET_ALLOCATOR holds the arena: from set(Some(bulk_alloc)) to
\* set(None), which follows render's return and which a panic skips.
Installed == raster_pc \in ({"render"} \cup Failed)

\* rasterize_pdf_page: CURRNET_ALLOCATOR.set(Some(bulk_alloc)) and the call
\* of render.
rasterize_begin ==
    /\ raster_pc = "idle"
    /\ raster_pc' = "render"
    /\ arena_last' = ArenaStep("install", NullPtr, NullPtr)
    /\ UNCHANGED <<allocations, heap, held, images_out, raster_data>>
    /\ UNCHANGED <<cache, algebra, tabsview, scoped>>

\* <BulkFreeAlloc as GlobalAlloc>::alloc, called by the rasterizer
alloc_dropping_record ==
    /\ raster_pc = "render"
    /\ \E ptr \in Ptrs \ heap :
          /\ heap' = heap \cup {ptr}
          /\ held' = held \cup {ptr}
          /\ arena_last' = ArenaStep("alloc", allocations.count, ptr)
          /\ IF allocations.count < ArenaCapacity
             THEN allocations' =
                      [count |-> allocations.count + 1,
                       slots |-> [allocations.slots EXCEPT
                                     ![allocations.count + 1] = ptr]]
             ELSE UNCHANGED allocations
    /\ UNCHANGED <<images_out, raster_pc, raster_data>>
    /\ UNCHANGED <<cache, algebra, tabsview, scoped>>
alloc ==
    /\ raster_pc = "render"
    /\ \E ptr \in Ptrs \ heap :
          /\ heap' = heap \cup {ptr}
          /\ IF allocations.count < ArenaCapacity
             THEN /\ allocations' =
                       [count |-> allocations.count + 1,
                        slots |-> [allocations.slots EXCEPT
                                      ![allocations.count + 1] = ptr]]
                  /\ held' = held \cup {ptr}
                  /\ arena_last' = ArenaStep("alloc", allocations.count, ptr)
                  /\ UNCHANGED raster_pc
             ELSE \* allocations.1[allocations.0]: index out of bounds
                  /\ raster_pc' \in Failed
                  /\ arena_last' =
                        ArenaStep("alloc", allocations.count, NullPtr)
                  /\ UNCHANGED <<allocations, held>>
    /\ UNCHANGED <<images_out, raster_data>>
    /\ UNCHANGED <<cache, algebra, tabsview, scoped>>

\* <BulkFreeAlloc as GlobalAlloc>::dealloc, called by the rasterizer or by
\* the destructors of an unwinding rasterizer.
dealloc(ptr) ==
    /\ raster_pc \in {"render", "unwinding"}
    /\ ptr \in held
    /\ allocations' = forget(allocations, ptr)
    /\ heap' = heap \ {ptr}
    /\ held' = held \ {ptr}
    /\ arena_last' = ArenaStep("dealloc", ptr, NullPtr)
    /\ UNCHANGED <<images_out, raster_pc, raster_data>>
    /\ UNCHANGED <<cache, algebra, tabsview, scoped>>

\* rasterize_pdf_page: render returns the pixmap, CURRNET_ALLOCATOR.set(None),
\* pixmap.take_u8() gives the buffer `data`, which the rasterizer allocated.
render_return ==
    /\ raster_pc = "render"
    /\ raster_data' \in held
    /\ raster_pc' = "forget"
    /\ arena_last' = ArenaStep("uninstall", NullPtr, raster_data')
    /\ UNCHANGED <<allocations, heap, held, images_out>>
    /\ UNCHANGED <<cache, algebra, tabsview, scoped>>

\* rasterize_pdf_page: bulk_alloc.forget(data.as_mut_ptr())
rasterize_forget ==
    /\ raster_pc = "forget"
    /\ allocations' = forget(allocations, raster_data)
    /\ raster_pc' = "free_all"
    /\ arena_last' = ArenaStep("forget", raster_data, NullPtr)
    /\ UNCHANGED <<heap, held, images_out, raster_data>>
    /\ UNCHANGED <<cache, algebra, tabsview, scoped>>

\* rasterize_pdf_page: bulk_alloc.free_all(), and the rest of the function,
\* which moves `data` into the RenderImage it returns.
rasterize_free_all ==
    /\ raster_pc = "free_all"
    /\ allocations' = free_all(allocations)
    /\ heap' = heap \ FreedByFreeAll(allocations)
    /\ held' = {}
    /\ images_out' = images_out \cup {raster_data}
    /\ raster_data' = NullPtr
    /\ raster_pc' = "idle"
    /\ arena_last' = ArenaStep("free_all", NullPtr, FreedByFreeAll(allocations))
    /\ UNCHANGED <<cache, algebra, tabsview, scoped>>

\* The last Arc of a RenderImage is dropped (a slot is cleared, the display
\* layer lets go of a snapshot) while no arena is installed on the dropping
\* thread: the buffer goes back to the allocator under the arena.
image_dropped(ptr) ==
    /\ ptr \in images_out
    /\ raster_pc # "aborted"
    /\ images_out' = images_out \ {ptr}
    /\ heap' = heap \ {ptr}
    /\ arena_last' = ArenaStep("image_dropped", ptr, NullPtr)
    /\ UNCHANGED <<allocations, held, raster_pc, raster_data>>
    /\ UNCHANGED <<cache, algebra, tabsview, scoped>>

NextArena ==
    \/ rasterize_begin
    \/ alloc
    \/ \E ptr \in Ptrs : dealloc(ptr)
    \/ render_return
    \/ rasterize_forget
    \/ rasterize_free_all
    \/ \E ptr \in Ptrs : image_dropped(ptr)

SpecArena == Init /\ [][NextArena]_vars

\* ------------------------------------------------------------ the tab strip
\* What a tab can hold: nothing (a new tab) or the data of an opened file.
TabData == {None, Some("pdf")}
\* Vec::remove(index) and Vec::insert(index, element), indices from 0.
RemoveAt(s, index) ==
    [k \in 1..(Len(s) - 1) |-> IF k <= index THEN s[k] ELSE s[k + 1]]
InsertAt(s, index, x) ==
    [k \in 1..(Len(s) + 1) |->
        IF k <= index THEN s[k] ELSE IF k = index + 1 THEN x ELSE s[k - 1]]
\* An identity no tab of the Vec has.
FreshId == CHOOSE id \in 1..MaxTabs : \A k \in 1..Len(tabs) : tabs[k].id # id

\* TabsView::set_active_tab: index.min(self.tabs.len().saturating_sub(1))
ClampedNever(index, n) == index
Clamped(index, n) == Min(index, SaturatingSub(n, 1))

\* TabsView::create_tab
create_tab(data) ==
    /\ Len(tabs) < MaxTabs
    /\ active_tab' = Len(tabs)
    /\ tabs' = Append(tabs, Tab(FreshId, data))
    /\ tabs_last' = TabsStep("create_tab", data)
    /\ UNCHANGED <<cache, algebra, arena, scoped>>

\* TabsView::remove_tab, the state it leaves.  With one tab the index is not
\* looked at; with two tabs or more Vec::remove panics on an index that is
\* not below tabs.len().
TabsAfterRemove(index) ==
    IF Len(tabs) = 1 THEN <<Tab(tabs[1].id, None)>> ELSE RemoveAt(tabs, index)
ActiveAfterRemove(index) ==
    IF Len(tabs) = 1 THEN active_tab
    ELSE IF active_tab = index
         THEN Clamped(index, Len(tabs) - 1)
         ELSE IF index < active_tab THEN active_tab - 1 ELSE active_tab
\* TabsView::remove_tab
remove_tab(index) ==
    /\ index < Len(tabs) \/ Len(tabs) = 1
    /\ tabs' = TabsAfterRemove(index)
    /\ active_tab' = ActiveAfterRemove(index)
    /\ tabs_last' = TabsStep("remove_tab", index)
    /\ UNCHANGED <<cache, algebra, arena, scoped>>

\* TabsView::set_active_tab
set_active_tab(index) ==
    /\ active_tab' = Clamped(index, Len(tabs))
    /\ tabs_last' = TabsStep("set_active_tab", index)
    /\ UNCHANGED tabs
    /\ UNCHANGED <<cache, algebra, arena, scoped>>

\* TabsView::active_tab_data_mut, and the write through the reference it
\* hands out (*tab_data = data), as PdfReader::update does with the file it
\* loaded.
active_tab_data_mut(data) ==
    /\ active_tab < Len(tabs)
    /\ tabs' = [tabs EXCEPT ![active_tab + 1].data = data]
    /\ tabs_last' = TabsStep("active_tab_data_mut", data)
    /\ UNCHANGED active_tab
    /\ UNCHANGED <<cache, algebra, arena, scoped>>

\* TabsView::tabs_data_mut, and a write to one element of the slice it
\* hands out.
tabs_data_mut(index, data) ==
    /\ index < Len(tabs)
    /\ tabs' = [tabs EXCEPT ![index + 1].data = data]
    /\ tabs_last' = TabsStep("tabs_data_mut", <<index, data>>)
    /\ UNCHANGED active_tab
    /\ UNCHANGED <<cache, algebra, arena, scoped>>

\* TabsView::on_action_close_tab
on_action_close_tab ==
    /\ active_tab < Len(tabs)
    /\ tabs' = TabsAfterRemove(active_tab)
    /\ active_tab' = ActiveAfterRemove(active_tab)
    /\ tabs_last' = TabsStep("on_action_close_tab", active_tab)
    /\ UNCHANGED <<cache, algebra, arena, scoped>>

\* TabsView::on_action_next_tab
on_action_next_tab ==
    /\ active_tab' = Clamped(active_tab + 1, Len(tabs))
    /\ tabs_last' = TabsStep("on_action_next_tab", None)
    /\ UNCHANGED tabs
    /\ UNCHANGED <<cache, algebra, arena, scoped>>

\* TabsView::on_action_prev_tab
on_action_prev_tab ==
    /\ active_tab' = Clamped(SaturatingSub(active_tab, 1), Len(tabs))
    /\ tabs_last' = TabsStep("on_action_prev_tab", None)
    /\ UNCHANGED tabs
    /\ UNCHANGED <<cache, algebra, arena, scoped>>

\* TabsView::render, on_drop: active_tab after the tab at `dragged` was
\* dropped on the tab at `target`.
ActiveAfterDropUnshifted(active, dragged, target) ==
    IF active = dragged THEN target ELSE active
ActiveAfterDrop(active, dragged, target) ==
    IF active = dragged THEN target
    ELSE IF active > dragged /\ active <= target THEN active - 1
    ELSE IF active < dragged /\ active >= target THEN active + 1
    ELSE active
\* TabsView::render, on_drop: the tab at drag.index is dropped on the tab at
\* tab_index, both indices taken from the tabs as they are.
on_drop(dragged, target) ==
    /\ dragged < Len(tabs)
    /\ target < Len(tabs)
    /\ tabs' = InsertAt(RemoveAt(tabs, dragged), target, tabs[dragged + 1])
    /\ active_tab' = ActiveAfterDrop(active_tab, dragged, target)
    /\ tabs_last' = TabsStep("on_drop", <<dragged, target>>)
    /\ UNCHANGED <<cache, algebra, arena, scoped>>

NextTabs ==
    \/ \E data \in TabData : create_tab(data)
    \/ \E index \in 0..(MaxTabs - 1) : remove_tab(index)
    \/ \E index \in 0..(MaxTabs + 1) : set_active_tab(index)
    \/ \E data \in TabData : active_tab_data_mut(data)
    \/ \E index \in 0..(MaxTabs - 1), data \in TabData :
          tabs_data_mut(index, data)
    \/ on_action_close_tab
    \/ on_action_next_tab
    \/ on_action_prev_tab
    \/ \E dragged, target \in 0..(MaxTabs - 1) : on_drop(dragged, target)

SpecTabs == Init /\ [][NextTabs]_vars

\* ------------------------------------------- the thread's current allocator
\* The allocators handed to with_allocator.
Allocators == {"tracking", "bulk", "system"}
\* TempUsed { cell, prev }, and the allocator the call installed.
TempUsed(prev, allocator) == [prev |-> prev, allocator |-> allocator]
\* The guard of the innermost call in progress.
InnermostGuard == alloc_stack[Len(alloc_stack)]
\* <TempUsed as Drop>::drop: self.cell.set(self.prev)
RestoredToNone(guard) == None
Restored(guard) == guard.prev

\* ThreadLocalAlloc::with_allocator, up to the call of f
with_allocator(allocator) ==
    /\ ~alloc_unwinding
    /\ Len(alloc_stack) < MaxDepth
    /\ current_allocator' = Some(allocator)
    /\ alloc_stack' = Append(alloc_stack,
                             TempUsed(current_allocator, allocator))
    /\ alloc_last' = [op |-> "with_allocator", arg |-> Some(allocator)]
    /\ UNCHANGED alloc_unwinding
    /\ UNCHANGED <<cache, algebra, arena, tabsview>>

\* ThreadLocalAlloc::with_allocator: f returns and _guard is dropped
closure_returns ==
    /\ ~alloc_unwinding
    /\ alloc_stack # <<>>
    /\ current_allocator' = Restored(InnermostGuard)
    /\ alloc_stack' = SubSeq(alloc_stack, 1, Len(alloc_stack) - 1)
    /\ alloc_last' = [op |-> "closure_returns",
                      arg |-> Some(InnermostGuard.allocator)]
    /\ UNCHANGED alloc_unwinding
    /\ UNCHANGED <<cache, algebra, arena, tabsview>>

\* ThreadLocalAlloc::with_allocator: f panics
closure_panics ==
    /\ ~alloc_unwinding
    /\ alloc_stack # <<>>
    /\ alloc_unwinding' = TRUE
    /\ alloc_last' = [op |-> "closure_panics",
                      arg |-> Some(InnermostGuard.allocator)]
    /\ UNCHANGED <<current_allocator, alloc_stack>>
    /\ UNCHANGED <<cache, algebra, arena, tabsview>>

\* ThreadLocalAlloc::with_allocator: the panic unwinds through the call and
\* drops _guard; it goes on through the enclosing call or is caught in the
\* enclosing closure (as with_no_leaks does with catch_unwind).
closure_unwinds ==
    /\ alloc_unwinding
    /\ alloc_stack # <<>>
    /\ current_allocator' = Restored(InnermostGuard)
    /\ alloc_stack' = SubSeq(alloc_stack, 1, Len(alloc_stack) - 1)
    /\ alloc_unwinding' \in (IF Len(alloc_stack) = 1 THEN {FALSE}
                              ELSE {TRUE, FALSE})
    /\ alloc_last' = [op |-> "closure_unwinds",
                      arg |-> Some(InnermostGuard.allocator)]
    /\ UNCHANGED <<cache, algebra, arena, tabsview>>

NextAllocator ==
    \/ \E allocator \in Allocators : with_allocator(allocator)
    \/ closure_returns
    \/ closure_panics
    \/ closure_unwinds

SpecAllocator == Init /\ [][NextAllocator]_vars

\* ------------------------------------------- the end-to-end scenario
\* The range the display layer shows in the scenario.
E2ERange == Range(3, 6)
\* set_new_pdf with the ten-page document, once.
E2ELoad ==
    /\ pdf = None
    /\ set_new_pdf(Some(E2EDoc), DefaultSettings)
\* get_images(3..6) of the first frame.
E2EFirstRequest ==
    /\ pdf # None
    /\ pages_this_frame = EmptyRange
    /\ pages_last_frame = EmptyRange
    /\ get_images(E2ERange)
\* frame_start() of the second frame.
E2EFrameStart ==
    /\ pages_this_frame = E2ERange
    /\ pages_last_frame = EmptyRange
    /\ frame_start
\* get_images(3..6) of the second frame.
E2ESecondRequest ==
    /\ pages_this_frame = EmptyRange
    /\ pages_last_frame = E2ERange
    /\ get_images(E2ERange)

NextE2E ==
    \/ E2ELoad
    \/ E2EFirstRequest
    \/ E2EFrameStart
    \/ E2ESecondRequest
    \/ get_images_notify
    \/ WorkerScan
    \/ WorkerCommit
    \/ WorkerWake
    \/ NotifierPoll
    \/ NotifierRedraw

SpecE2E == Init /\ [][NextE2E]_vars

\* The calls of the scenario have all returned.
E2EDone ==
    /\ pages_this_frame = E2ERange
    /\ pages_last_frame = E2ERange
    /\ facade_pc = "idle"
\* The worker is blocked in wait_while with nothing left to do.
WorkerDrained ==
    /\ worker_pc = "wait"
    /\ acknowledged_pages = requested_pages

\* ================================================================ claims
\* The slot of page index i.
Slot(i) == images[i + 1]
SlotIndices == 0..(Len(images) - 1)

\* C1: every slot that holds an image holds the image of its own page of
\* the active document under the active render settings; the result of a
\* render that was in flight when set_new_pdf installed another document or
\* other settings never reaches the slots.
C1_SlotsBelongToActiveDocument ==
    \A i \in SlotIndices :
        IsSome(Slot(i)) =>
            /\ IsSome(pdf)
            /\ Slot(i) = Some(Image(Unwrap(pdf), render_settings, i))
\* C1 witness: a render came back after another document had been
\* installed, and was not saved.
C1_StaleRenderDiscarded ==
    /\ last.op = "worker_commit"
    /\ last.ret = FALSE
    /\ IsSome(pdf)
    /\ pdf # last.arg[2]
    /\ Len(images) > last.arg[1]

\* C2: right after set_new_pdf or clear, requested_pages and
\* acknowledged_pages are 0..0 and every slot is None.
C2_ResetAfterSetNewPdf ==
    last.op \in {"set_new_pdf", "clear"} =>
        /\ requested_pages = EmptyRange
        /\ acknowledged_pages = EmptyRange
        /\ \A i \in SlotIndices : Slot(i) = None
\* C2 witness: set_new_pdf has just returned while the worker is rasterizing
\* a page and the notifier is suspended.
C2_SetNewPdfDuringRender ==
    /\ last.op = "set_new_pdf"
    /\ worker_pc = "render"
    /\ notifier_pc = "suspended"
    /\ Len(images) > 0

\* The worker has just selected the page it starts to rasterize.
WorkerSelected ==
    /\ last.op = "worker_scan"
    /\ IsSome(last.ret)
    /\ worker_pc = "render"
\* The index lies in R extended by one page at its start.
InExtendedRange(i, R) == SaturatingSub(R.start, 1) <= i /\ i < R.end

\* C3 as stated: with requested_pages = R when the worker selects a page,
\* the selected index lies in [R.start - 1, R.end), and it is 0 only if
\* R.start <= 1, for every R including 0..0.
C3_Original_SelectedInExtendedRange ==
    WorkerSelected =>
        /\ InExtendedRange(Unwrap(last.ret), last.arg)
        /\ Unwrap(last.ret) = 0 => last.arg.start <= 1
\* C3 as amended: a selected index other than 0 lies in [R.start - 1, R.end);
\* index 0 is selected only if R.start <= 1 (also when it is outside the
\* extended range, as for R = 0..0).
C3_SelectedInExtendedRangeOrFirstPage ==
    WorkerSelected =>
        /\ Unwrap(last.ret) # 0 => InExtendedRange(Unwrap(last.ret), last.arg)
        /\ Unwrap(last.ret) = 0 => last.arg.start <= 1
\* C3 witness: the worker starts on the page before the requested range
\* while page 0 is not wanted.
C3_PrewarmPageSelected ==
    /\ WorkerSelected
    /\ last.arg.start >= 2
    /\ Unwrap(last.ret) = last.arg.start - 1

\* C4 as stated: in the scenario, once the worker is drained, slots 2..7
\* hold images and every slot outside union(this_frame, last_frame) is None.
C4_Original_Slots2To7 ==
    (E2EDone /\ WorkerDrained) =>
        /\ \A i \in SlotIndices : RangeContains(Range(2, 7), i) => IsSome(Slot(i))
        /\ \A i \in SlotIndices :
              ~RangeContains(range_union(pages_this_frame, pages_last_frame), i)
                  => Slot(i) = None
\* C4 as amended: in the scenario, once the worker is drained, exactly the
\* slots 2..6 (the requested range 3..6 extended by one page at its start)
\* hold images.
C4_Slots2To6 ==
    (E2EDone /\ WorkerDrained) =>
        \A i \in SlotIndices : IsSome(Slot(i)) <=> RangeContains(Range(2, 6), i)
\* C4 witness: the scenario has run and the worker is drained.
C4_ScenarioDrained ==
    /\ E2EDone
    /\ WorkerDrained
    /\ pdf = Some(E2EDoc)
    /\ IsSome(Slot(3))

\* C5: the vector get_images returns has visible_range.len() elements.
C5_ResultLength ==
    last.op = "get_images" => Len(last.ret) = RangeLen(last.arg)
\* C5 witness: get_images has returned for a range that starts inside the
\* slot array and ends beyond it.
C5_PartlyOutOfBounds ==
    /\ last.op = "get_images"
    /\ last.arg.start < Len(images)
    /\ last.arg.end > Len(images)

\* C6: element i - visible_range.start of the result of get_images equals
\* slot i for every i of the range below the slot count, and only indices
\* without a slot or with an empty slot come back as None.
C6_ResultIsSnapshot ==
    last.op = "get_images" =>
        \A k \in 1..RangeLen(last.arg) :
            LET i == last.arg.start + k - 1
            IN  /\ i < Len(images) => last.ret[k] = Slot(i)
                /\ last.ret[k] = None => (i >= Len(images) \/ Slot(i) = None)

\* The call just made was a get_images whose range is not contiguous with
\* the range accumulated before it in the same frame.
GapToPriorWindow ==
    /\ last.op = "get_images"
    /\ RangeLen(last.pre) > 0
    /\ ~range_is_contiguous(last.pre, last.arg)
\* Such a call, with a range that get_images tracks.
TrackedGapToPriorWindow == GapToPriorWindow /\ last.arg # Range(0, 1)
\* No page of the prior window is in r.
ExcludesPriorWindow(r) ==
    \A i \in 0..MaxIndex : RangeContains(last.pre, i) => ~RangeContains(r, i)

\* C7 as stated: after a get_images whose range is not contiguous with the
\* prior window, requested_pages contains none of the prior window's pages,
\* whatever pages_last_frame is.
C7_Original_RequestExcludesPrior ==
    GapToPriorWindow => ExcludesPriorWindow(requested_pages)
\* C7 as amended: after such a call with a range other than 0..1,
\* pages_this_frame is the new range alone and requested_pages is the union
\* of the new range and pages_last_frame; it contains none of the prior
\* window's pages when pages_last_frame is empty.
C7_PriorWindowDiscarded ==
    TrackedGapToPriorWindow =>
        /\ pages_this_frame = last.arg
        /\ ExcludesPriorWindow(pages_this_frame)
        /\ requested_pages =
             (IF RangeLen(pages_last_frame) = 0 THEN last.arg
              ELSE Range(Min(last.arg.start, pages_last_frame.start),
                         Max(last.arg.end, pages_last_frame.end)))
        /\ RangeLen(pages_last_frame) = 0 => ExcludesPriorWindow(requested_pages)
\* C7 witness: such a call was made while the previous frame showed pages.
C7_GapWithLastFrame ==
    /\ TrackedGapToPriorWindow
    /\ RangeLen(pages_last_frame) > 0

\* C8: after get_images(V) with V other than 0..1, pages_this_frame is V when
\* the previous pages_this_frame was empty or not contiguous with V, else the
\* union of the two; requested_pages is the union of pages_this_frame and
\* pages_last_frame.
C8_TrackedRanges ==
    (last.op = "get_images" /\ last.arg # Range(0, 1)) =>
        /\ pages_this_frame =
             (IF RangeLen(last.pre) = 0
                 \/ ~range_is_contiguous(last.pre, last.arg)
              THEN last.arg
              ELSE range_union(last.pre, last.arg))
        /\ requested_pages = range_union(pages_this_frame, pages_last_frame)
\* C8 witness: a call extended the window of the frame by a contiguous range.
C8_WindowExtended ==
    /\ last.op = "get_images"
    /\ RangeLen(last.pre) > 0
    /\ RangeLen(last.arg) > 0
    /\ last.pre # last.arg
    /\ RangeLen(pages_this_frame) = RangeLen(last.pre) + RangeLen(last.arg)

\* C9: get_images(0..1) changes neither the tracked ranges nor the shared
\* state, and wakes neither the worker nor the notifier.
C9_FirstPageRequestUntracked ==
    [][(last'.op = "get_images" /\ last'.arg = Range(0, 1)) =>
          UNCHANGED <<pages_this_frame, pages_last_frame, requested_pages,
                      acknowledged_pages, images, wake_future, notifier_pc,
                      worker_pc, worker_notified, facade_pc>>]_vars
\* C9 witness: get_images(0..1) returned the image of page 0 while the
\* notifier was registered and the worker blocked.
C9_FirstPageRequested ==
    /\ last.op = "get_images"
    /\ last.arg = Range(0, 1)
    /\ IsSome(last.ret[1])
    /\ wake_future
    /\ worker_pc = "wait"

\* C10: frame_start moves pages_this_frame into pages_last_frame, empties
\* pages_this_frame and leaves the shared state unchanged.
C10_FrameStartRotates ==
    [][(last'.op = "frame_start") =>
          /\ pages_last_frame' = pages_this_frame
          /\ pages_this_frame' = EmptyRange
          /\ UNCHANGED <<images, requested_pages, acknowledged_pages, pdf,
                         render_settings, should_quit, wake_future>>]_vars
\* C10 witness: frame_start has rotated a non-empty range while images were
\* cached.
C10_FrameRotated ==
    /\ last.op = "frame_start"
    /\ RangeLen(pages_last_frame) > 0
    /\ pages_this_frame = EmptyRange
    /\ \E i \in SlotIndices : IsSome(Slot(i))

\* Both background participants have terminated.
Terminated == worker_pc = "done" /\ notifier_pc = "done"

\* C11: once the facade is dropped the shutdown flag is set and stays set,
\* and under fair scheduling the worker thread and the notifier task both
\* terminate, wherever they were when the facade was dropped.
C11_ShutdownTerminates ==
    /\ [][last'.op = "drop" => should_quit']_vars
    /\ [][should_quit => should_quit']_vars
    /\ should_quit ~> Terminated
\* C11 witness: the facade has just been dropped while the worker was blocked
\* in wait_while and the notifier was suspended (its waker was taken and is
\* about to be woken).
C11_DroppedWhileBothBlocked ==
    /\ last.op = "drop"
    /\ last.ret = TRUE
    /\ should_quit
    /\ worker_pc = "wait"
    /\ ~worker_notified
    /\ notifier_pc = "suspended"
    /\ facade_pc = "drop_wake"

\* The function just applied to range_a and range_b.
Applied(op) == range_out.op = op
\* Every index of x is an index of r.
Covers(r, x) == \A i \in 0..MaxCoord : RangeContains(x, i) => RangeContains(r, i)

\* C12: for non-empty a and b the union is at least as long as the longer of
\* the two, and it is the same range with the operands exchanged.
C12_UnionLengthAndCommutative ==
    (Applied("range_union") /\ RangeLen(range_a) > 0 /\ RangeLen(range_b) > 0)
        => /\ RangeLen(range_out.val) >= Max(RangeLen(range_a), RangeLen(range_b))
           /\ range_out.val = range_union(range_b, range_a)
\* C12 witness: the union of two non-empty ranges with a gap between them,
\* the second one first.
C12_UnionAcrossGap ==
    /\ Applied("range_union")
    /\ RangeLen(range_a) > 0
    /\ RangeLen(range_b) > 0
    /\ range_b.end < range_a.start
    /\ RangeLen(range_out.val) > RangeLen(range_a) + RangeLen(range_b)

\* C13: the union of two non-empty ranges covers both and no range that
\* covers both is shorter; with exactly one empty operand it is the other
\* operand; with two empty operands it is empty.
C13_UnionIsSmallestCover ==
    Applied("range_union") =>
        /\ (RangeLen(range_a) > 0 /\ RangeLen(range_b) > 0) =>
              /\ Covers(range_out.val, range_a)
              /\ Covers(range_out.val, range_b)
              /\ \A r \in Ranges :
                    (Covers(r, range_a) /\ Covers(r, range_b))
                        => Covers(r, range_out.val)
        /\ (RangeLen(range_a) = 0 /\ RangeLen(range_b) > 0) =>
              range_out.val = range_b
        /\ (RangeLen(range_a) > 0 /\ RangeLen(range_b) = 0) =>
              range_out.val = range_a
        /\ (RangeLen(range_a) = 0 /\ RangeLen(range_b) = 0) =>
              RangeLen(range_out.val) = 0
\* C13 witness: the union of an empty range that lies outside the other
\* operand with a non-empty range.
C13_EmptyOperandOutside ==
    /\ Applied("range_union")
    /\ RangeLen(range_a) = 0
    /\ RangeLen(range_b) > 0
    /\ range_a.start > range_b.end
    /\ range_out.val = range_b

\* C14: range_is_contiguous(a, b) is true exactly when the intersection of
\* a and b is non-empty or a.end = b.start or b.end = a.start, for all a and
\* b, the empty ones included.
C14_ContiguousIffOverlapOrTouch ==
    Applied("range_is_contiguous") =>
        (range_out.val <=>
            \/ RangeLen(range_intersection(range_a, range_b)) > 0
            \/ range_a.end = range_b.start
            \/ range_b.end = range_a.start)

\* C15: the intersection has start <= end and its indices are exactly the
\* indices that are in both operands.
C15_IntersectionWellFormed ==
    Applied("range_intersection") =>
        /\ range_out.val.start <= range_out.val.end
        /\ \A i \in 0..MaxCoord :
              RangeContains(range_out.val, i)
                  <=> (RangeContains(range_a, i) /\ RangeContains(range_b, i))
\* C15 witness: the intersection of two non-empty ranges with a gap between
\* them, where the end is raised to the start.
C15_DisjointOperands ==
    /\ Applied("range_intersection")
    /\ RangeLen(range_a) > 0
    /\ RangeLen(range_b) > 0
    /\ range_a.end < range_b.start
    /\ range_out.val = Range(range_b.start, range_b.start)

\* The pointers the arena has a record of.
Recorded == {allocations.slots[k] : k \in 1..allocations.count} \ {NullPtr}

\* C16: an alloc made when every record of the arena is in use ends the
\* rasterize call in a panic and returns no pointer; while the rasterizer
\* runs, and after such a panic, every allocation the rasterizer was handed
\* and has not freed is recorded.
C16_OverflowFails ==
    /\ allocations.count <= ArenaCapacity
    /\ raster_pc \in {"render"} \cup Failed => held \subseteq Recorded
    /\ (arena_last.op = "alloc" /\ arena_last.arg >= ArenaCapacity) =>
          /\ raster_pc \in Failed
          /\ arena_last.ret = NullPtr
\* C16 witness: the rasterizer asked for one allocation more than the arena
\* has records, and the call has failed.
C16_ArenaExhausted ==
    /\ arena_last.op = "alloc"
    /\ arena_last.arg = ArenaCapacity
    /\ raster_pc \in Failed
    /\ Cardinality(held) = ArenaCapacity

\* C17: once should_quit is set the worker saves no image into a slot, the
\* image of a render that was in flight when the flag was set included.
C17_NoCommitAfterShutdown ==
    (should_quit /\ last.op = "worker_commit") => last.ret = FALSE

\* C18 as stated: acknowledged_pages changes in no step but the worker's,
\* and the worker sets it to the requested_pages it has just read, in every
\* iteration of its loop.
C18_Original_OnlyWorkerWrites ==
    [][/\ acknowledged_pages' # acknowledged_pages => last'.op = "worker_scan"
       /\ last'.op = "worker_scan" =>
             /\ acknowledged_pages' = requested_pages
             /\ last'.arg = requested_pages]_vars
\* C18 as amended: acknowledged_pages changes only in an iteration of the
\* worker and in set_new_pdf and clear; the worker sets it to the
\* requested_pages it has just read, in every iteration of its loop;
\* set_new_pdf and clear reset it to 0..0 together with requested_pages.
C18_WorkerOrResetWrites ==
    [][/\ acknowledged_pages' # acknowledged_pages =>
             last'.op \in {"worker_scan", "set_new_pdf", "clear"}
       /\ last'.op = "worker_scan" =>
             /\ acknowledged_pages' = requested_pages
             /\ last'.arg = requested_pages
       /\ last'.op \in {"set_new_pdf", "clear"} =>
             /\ acknowledged_pages' = EmptyRange
             /\ requested_pages' = EmptyRange]_vars
\* C18 witness: the worker found no page to render and acknowledged a
\* non-empty request.
C18_AcknowledgedWithoutCandidate ==
    /\ last.op = "worker_scan"
    /\ last.ret = None
    /\ RangeLen(last.arg) > 0
    /\ acknowledged_pages = last.arg
    /\ worker_pc = "wait"

\* pdf.pages().len() of the document in p, 0 when there is none.
PagesOf(p) == IF IsSome(p) THEN PageCount(Unwrap(p)) ELSE 0
\* The step just taken was a call of set_new_pdf or clear.
DocumentStep == last'.op \in {"set_new_pdf", "clear"}

\* C19: the slot vector is always as long as the active document has pages
\* (0 without a document); set_new_pdf and clear rebuild it with every slot
\* None, and no other step changes its length or the document.
C19_SlotCountTracksDocument ==
    /\ [](Len(images) = PagesOf(pdf))
    /\ [][/\ DocumentStep => images' = EmptySlots(PagesOf(pdf'))
          /\ ~DocumentStep => (Len(images') = Len(images) /\ pdf' = pdf)]_vars
\* C19 witness: set_new_pdf has replaced a document by a shorter one while
\* the worker was rasterizing a page of the longer one.
C19_ShorterDocumentInstalled ==
    /\ last.op = "set_new_pdf"
    /\ worker_pc = "render"
    /\ IsSome(pdf)
    /\ PagesOf(pdf) < PagesOf(worker_pdf)
    /\ Len(images) = PagesOf(pdf)

\* C20: a page the worker starts to rasterize is a page of the document it
\* captured; whenever the scan selects an index a document is set, so the
\* worker goes on to rasterize; a rendered image whose index has no slot is
\* not written.
C20_WorkerIndexValid ==
    /\ worker_pc = "render" =>
          /\ IsSome(worker_pdf)
          /\ worker_index < PagesOf(worker_pdf)
    /\ (last.op = "worker_scan" /\ IsSome(last.ret)) =>
          /\ IsSome(pdf)
          /\ worker_pc = "render"
          /\ worker_pdf = pdf
          /\ worker_index = Unwrap(last.ret)
    /\ (last.op = "worker_commit" /\ last.arg[1] >= Len(images)) =>
          last.ret = FALSE
\* C20 witness: a render came back for an index beyond the slots of the
\* document that had been installed meanwhile.
C20_WriteBackOutsideSlots ==
    /\ last.op = "worker_commit"
    /\ IsSome(pdf)
    /\ last.arg[1] >= Len(images)
    /\ last.ret = FALSE

\* C21: while the worker rasterizes, its guard does not hold the lock: each
\* of set_new_pdf, clear, get_images and drop can run to its end when the
\* thread of the display layer is free to call it, and so can a poll of the
\* notifier that is due.
C21_LockFreeWhileRendering ==
    worker_pc = "render" =>
        /\ LockFree
        /\ FacadeIdle =>
              /\ ENABLED clear
              /\ ENABLED drop
              /\ \A d \in Docs, c \in Settings : ENABLED set_new_pdf(Some(d), c)
              /\ \A r \in PageRanges : ENABLED get_images(r)
        /\ (notifier_pc \in {"ready", "repoll"} /\ NotifierMayRun) =>
              ENABLED NotifierPoll
\* C21 witness: get_images has changed the request while the worker was
\* rasterizing.
C21_RequestChangedDuringRender ==
    /\ worker_pc = "render"
    /\ last.op = "get_images"
    /\ last.arg # Range(0, 1)
    /\ requested_pages # acknowledged_pages
    /\ requested_pages = last.arg

\* Index i is not wanted under the request R: index 0 when R.start > 1, any
\* other index when it is outside [R.start - 1, R.end).
NotWanted(i, R) ==
    IF i = 0 THEN R.start > 1
    ELSE ~(SaturatingSub(R.start, 1) <= i /\ i < R.end)

\* C22: when a pass of the worker over the slots ends, every slot whose
\* index is not wanted is None and every wanted slot is as the pass found it.
C22_EagerEviction ==
    last.op = "worker_scan" =>
        \A i \in SlotIndices :
            IF NotWanted(i, last.arg)
            THEN Slot(i) = None
            ELSE Slot(i) = last.pre[i + 1]
\* C22 witness: a pass has cleared a slot that held an image and kept
\* another one.
C22_SlotEvicted ==
    /\ last.op = "worker_scan"
    /\ \E i \in SlotIndices : IsSome(last.pre[i + 1]) /\ Slot(i) = None
    /\ \E i \in SlotIndices : IsSome(Slot(i))

\* The wanted slots that were empty when the pass just made began.
Candidates ==
    {i \in 0..(Len(last.pre) - 1) :
        ~NotWanted(i, last.arg) /\ last.pre[i + 1] = None}
\* wanted.end - 1 - len(wanted) / 2, not below 0, for the request R
CenterOf(R) ==
    LET wanted_start == IF R.start > 0 THEN R.start - 1 ELSE 0
        wanted_len == IF R.end > wanted_start THEN R.end - wanted_start ELSE 0
        c == R.end - 1 - (wanted_len \div 2)
    IN  IF c < 0 THEN 0 ELSE c

\* C23: a pass selects nothing exactly when no wanted slot is empty;
\* otherwise it selects the wanted empty slot with the smallest distance to
\* the center, the lowest index among those at that distance.
C23_ClosestToCenter ==
    last.op = "worker_scan" =>
        /\ last.ret = None <=> Candidates = {}
        /\ Candidates # {} =>
              LET sel == Unwrap(last.ret)
                  c == CenterOf(last.arg)
              IN  /\ sel \in Candidates
                  /\ \A j \in Candidates :
                        \/ AbsDiff(sel, c) < AbsDiff(j, c)
                        \/ (AbsDiff(sel, c) = AbsDiff(j, c) /\ sel <= j)
\* C23 witness: two wanted empty slots were at the same smallest distance
\* from the center and the lower one was selected.
C23_TieBrokenByLowerIndex ==
    /\ last.op = "worker_scan"
    /\ IsSome(last.ret)
    /\ \E j \in Candidates :
          /\ j > Unwrap(last.ret)
          /\ AbsDiff(j, CenterOf(last.arg))
                = AbsDiff(Unwrap(last.ret), CenterOf(last.arg))

\* The worker is blocked in wait_while.
Blocked == worker_pc = "wait"
\* The condition wait_while waits on is false.
WorkArrived == should_quit \/ acknowledged_pages # requested_pages
\* A notify_all has reached the blocked worker or the caller that changed
\* the condition is on its way to it.
WakeUnderWay ==
    worker_notified \/ facade_pc \in {"notify", "drop_wake", "drop_notify"}

\* C24: the worker comes to block only from a pass that found no page to
\* render; whenever it is blocked while should_quit is set or
\* acknowledged_pages differs from requested_pages a wake-up is under way,
\* and it does not stay blocked in that condition; blocked and not notified
\* it takes no step.
C24_NoLostWakeup ==
    /\ [][(~Blocked /\ Blocked') =>
            (last'.op = "worker_scan" /\ last'.ret = None)]_vars
    /\ []((Blocked /\ WorkArrived) => WakeUnderWay)
    /\ []((Blocked /\ ~worker_notified) => ~ENABLED Worker)
    /\ (Blocked /\ WorkArrived) ~> ~(Blocked /\ WorkArrived)
\* C24 witness: get_images has changed the request and its notify_all has
\* reached the blocked worker.
C24_WokenByRequest ==
    /\ Blocked
    /\ worker_notified
    /\ last.op = "get_images_notify"
    /\ acknowledged_pages # requested_pages
    /\ ~should_quit

\* Every slot of the document that requested_pages names holds an image.
AllRequestedCached ==
    \A i \in 0..(Len(images) - 1) :
        RangeContains(requested_pages, i) => IsSome(images[i + 1])
\* Page i of the loaded document is in requested_pages.
InRequest(i) == i < Len(images) /\ RangeContains(requested_pages, i)
\* The worker has just discarded the image it rendered of page i.
Discarded(i) ==
    last.op = "worker_commit" /\ last.ret = FALSE /\ last.arg[1] = i
\* The worker has just selected page i.
Reselected(i) == last.op = "worker_scan" /\ last.ret = Some(i)

\* C25: if from some point on the document, the settings and
\* requested_pages no longer change and shutdown is never requested, then
\* from some point on every index of requested_pages below the page count
\* holds an image and the worker is blocked; and a page whose rendered image
\* was discarded as stale while it is in requested_pages is selected again
\* by a later pass unless it leaves requested_pages.
C25_EventuallyCached ==
    /\ (/\ <>[][UNCHANGED <<pdf, render_settings, requested_pages>>]_vars
        /\ []~should_quit)
          => <>[](AllRequestedCached /\ Blocked)
    /\ \A i \in 0..(MaxPages - 1) :
          (Discarded(i) /\ InRequest(i)) ~> (Reselected(i) \/ ~InRequest(i))
\* C25 witness: the worker has discarded a stale image of a page that the
\* new request names again.
C25_StaleResultStillRequested ==
    /\ last.op = "worker_commit"
    /\ last.ret = FALSE
    /\ InRequest(last.arg[1])
    /\ worker_pc = "scan"

\* The notifier's snapshot says of slot k that it is cached; a slot the
\* snapshot does not reach counts as not cached.
SnapshotBit(k) == k <= Len(rendered_images) /\ rendered_images[k]
\* Some slot's cached/uncached bit differs from the notifier's snapshot.
BitDiffers == \E k \in 1..Len(images) : IsSome(images[k]) # SnapshotBit(k)
\* The step is a poll of the notifier.
PollStep == notifier_pc \in {"ready", "repoll"} /\ last'.op = "poll"
\* The step is the worker storing the image it rendered.
CommitStep ==
    worker_pc = "render" /\ last'.op = "worker_commit" /\ last'.ret = TRUE

\* C26: a poll of the notifier completes exactly when should_quit is set or
\* the cached/uncached bit of some slot differs from its snapshot, and then
\* leaves wake_future alone; otherwise it stores its waker in wake_future
\* and suspends; either way the snapshot becomes the current bits.  Every
\* commit of the worker takes the waker stored at that moment and wakes the
\* suspended notifier with it.
C26_PollAndCommit ==
    /\ [][PollStep =>
            /\ (notifier_pc' \in {"redraw", "done"})
                    <=> (should_quit \/ BitDiffers)
            /\ (notifier_pc' = "suspended") <=> ~(should_quit \/ BitDiffers)
            /\ wake_future' =
                    IF should_quit \/ BitDiffers THEN wake_future ELSE TRUE
            /\ Len(rendered_images') = Len(images)
            /\ \A k \in 1..Len(images) :
                    rendered_images'[k] = IsSome(images[k])]_vars
    /\ [][CommitStep =>
            /\ wake_future' = FALSE
            /\ (wake_future /\ notifier_pc = "suspended")
                    => notifier_pc' = "ready"
            /\ ~wake_future => notifier_pc' = notifier_pc]_vars
\* C26 witness: a poll has completed because a page was cached since the
\* poll before it, with no shutdown requested.
C26_ResumedByNewImage ==
    /\ last.op = "poll"
    /\ last.ret = <<FALSE, TRUE>>
    /\ notifier_pc = "redraw"
    /\ \E k \in 1..Len(rendered_images) : rendered_images[k]

\* The step is the notifier asking the display layer for a redraw.
RedrawStep == last'.op = "redraw" /\ last.op # "redraw"

\* C27: a poll that finds should_quit set ends the notifier, a redraw
\* request that fails to reach the view ends the notifier, an ended
\* notifier stays ended, and the notifier asks for a redraw only straight
\* after a poll that found should_quit clear, with should_quit still clear.
C27_NotifierTerminates ==
    /\ [][(PollStep /\ should_quit) => notifier_pc' = "done"]_vars
    /\ [][(RedrawStep /\ ~parent_alive) => notifier_pc' = "done"]_vars
    /\ [][notifier_pc = "done" => notifier_pc' = "done"]_vars
    /\ [][RedrawStep => (notifier_pc = "redraw" /\ ~should_quit)]_vars
    /\ [](notifier_pc = "redraw" => ~should_quit)
\* C27 witness: the notifier has ended because the view was gone when it
\* asked for a redraw, with no shutdown requested.
C27_EndedByMissingView ==
    /\ notifier_pc = "done"
    /\ last.op = "redraw"
    /\ last.ret = FALSE
    /\ ~should_quit

\* The notifier is suspended on a waker it has handed out.
Registered == notifier_pc = "suspended"
\* Drop has taken the waker out of wake_future and has not called wake yet.
HeldByDrop == facade_pc = "drop_wake"
\* The step wakes the suspended notifier.
WakesNotifier == Registered /\ notifier_pc' = "ready"

\* C28: while the notifier is suspended there is exactly one waker of it,
\* in wake_future or in the hands of a drop that has taken it, and there is
\* none otherwise; a poll that suspends finds wake_future empty and fills
\* it; the notifier is woken only by a commit of the worker, by get_images
\* or by drop, and wake_future is empty once it is woken; and whoever
\* empties wake_future wakes the notifier, drop after it released the lock.
C28_OneRegistration ==
    /\ [](Registered <=> (wake_future \/ HeldByDrop))
    /\ [](~(wake_future /\ HeldByDrop))
    /\ [][(PollStep /\ notifier_pc' = "suspended")
            => (~wake_future /\ wake_future')]_vars
    /\ [][WakesNotifier =>
            /\ ~wake_future' /\ ~HeldByDrop'
            /\ last'.op \in {"worker_commit", "get_images", "drop_wake"}]_vars
    /\ [][(wake_future /\ ~wake_future') => (WakesNotifier \/ HeldByDrop')]_vars
    /\ [][(HeldByDrop /\ ~HeldByDrop') => WakesNotifier]_vars
\* C28 witness: drop took the waker of the suspended notifier and, the lock
\* released, woke it.
C28_RegistrationTakenByDrop ==
    /\ last.op = "drop_wake"
    /\ notifier_pc = "ready"
    /\ ~wake_future

\* The step is the call of free_all.
FreeAllStep == raster_pc = "free_all" /\ arena_last'.op = "free_all"
\* free_all hands no pointer to allocator.dealloc twice: no two records in
\* use hold the same pointer.
FreedOnce(al) ==
    \A j, k \in 1..al.count :
        (j # k /\ al.slots[j] # NullPtr) => al.slots[j] # al.slots[k]

\* C29: free_all hands to the allocator under the arena exactly the
\* pointers that were allocated through the arena and neither deallocated
\* nor forgotten, each of them once, none that was deallocated or
\* forgotten, and leaves the count at zero and every record empty; no
\* record beyond the count is ever in use.
C29_FreeAllFreesTheRest ==
    /\ [][FreeAllStep =>
            /\ arena_last'.ret = held \ {raster_data}
            /\ arena_last'.ret \cap (Ptrs \ held) = {}
            /\ raster_data \notin arena_last'.ret
            /\ FreedOnce(allocations)
            /\ heap' = heap \ (held \ {raster_data})
            /\ allocations'.count = 0
            /\ \A k \in 1..ArenaCapacity :
                    allocations'.slots[k] = NullPtr]_vars
    /\ [](\A k \in 1..ArenaCapacity :
            k > allocations.count => allocations.slots[k] = NullPtr)
\* C29 witness: free_all has freed what the rasterizer left allocated and
\* kept the forgotten output buffer.
C29_LeftoversFreed ==
    /\ arena_last.op = "free_all"
    /\ arena_last.ret # {}
    /\ images_out \cap heap # {}
    /\ allocations.count = 0

\* C30: one rasterization installs the arena, calls the rasterizer, forgets
\* the output buffer, calls free_all and uninstalls the arena, in this
\* order: the arena is still installed when forget and free_all are called,
\* and it is uninstalled by the step that follows free_all.
C30_InstalledUntilFreeAll ==
    /\ raster_pc \in {"forget", "free_all"} => Installed
    /\ arena_last.op = "uninstall" => raster_pc = "idle"
    /\ arena_last.op = "forget" => raster_pc = "free_all"

\* C31: a rasterizer failure leaves the slot of the page empty and does not
\* end the worker, which goes on with its next pass.
C31_WorkerOutlivesFailure ==
    /\ worker_pc # "panicked"
    /\ last.op = "rasterize_panics" =>
          /\ worker_pc = "scan"
          /\ last.arg[1] < Len(images) => images[last.arg[1] + 1] = None

\* get_images has just returned an image for every index of the range the
\* display layer shows.
Shown ==
    /\ last.op = "get_images"
    /\ last.arg = range_a
    /\ \A k \in 1..Len(last.ret) : IsSome(last.ret[k])

\* C32: with one document loaded and every frame asking for the same
\* non-empty range of its pages, get_images eventually returns an image for
\* every index of the range.
C32_EventuallyShown == <>Shown

\* The worker has just written an image into a slot.
Committed == last.op = "worker_commit" /\ last.ret = TRUE
\* The notifier has just asked the display layer for a redraw.
RedrawAsked == last.op = "redraw"

\* C33: after every write of an image into a slot the notifier asks the
\* display layer for a redraw, unless shutdown is requested (the view stays
\* throughout).
C33_CommitLeadsToRedraw == Committed ~> (RedrawAsked \/ should_quit)

\* The step is a call of get_images that is tracked.
TrackedStep ==
    /\ facade_pc = "idle"
    /\ last'.op = "get_images"
    /\ ~(last'.arg.start = 0 /\ last'.arg.end = 1)
\* The step is the first part of Drop for PdfPageCache.
DropStep == ~should_quit /\ should_quit'

\* C34 as stated: while the notifier is suspended its waker is in
\* wake_future, and the next commit of the worker, the next tracked call of
\* get_images that changes requested_pages, and drop each wake it.
C34_Original_EveryChangeWakes ==
    /\ [](Registered => wake_future)
    /\ [][(Registered /\ (\/ CommitStep
                          \/ TrackedStep
                             /\ requested_pages' # requested_pages
                          \/ DropStep))
            => notifier_pc' = "ready"]_vars
\* C34 as amended: while the notifier is suspended its waker is in
\* wake_future or in the hands of a drop that took it; with the waker in
\* wake_future the next commit of the worker and the next tracked call of
\* get_images that leaves requested_pages different from acknowledged_pages
\* wake it, and drop takes the waker and wakes it by its next step.
C34_UnacknowledgedRequestWakes ==
    /\ [](Registered => (wake_future \/ HeldByDrop))
    /\ [][(Registered /\ wake_future
                      /\ (\/ CommitStep
                          \/ TrackedStep
                             /\ requested_pages' # acknowledged_pages))
            => notifier_pc' = "ready"]_vars
    /\ [][(Registered /\ DropStep) => HeldByDrop']_vars
    /\ [][HeldByDrop => (HeldByDrop' \/ notifier_pc' = "ready")]_vars
\* C34 witness: the notifier, suspended after an earlier poll, has been
\* woken and the worker has just committed an image.
C34_WokenAfterSuspension ==
    /\ last.op = "worker_commit"
    /\ last.ret = TRUE
    /\ notifier_pc = "ready"
    /\ ~wake_future
    /\ Len(rendered_images) > 0

\* The worker is blocked with nothing left to acknowledge.
AtRest == Blocked /\ acknowledged_pages = requested_pages
\* The indices of the slots that hold an image.
Resident == {i \in 0..(Len(images) - 1) : IsSome(images[i + 1])}

\* C35: whenever the worker is blocked and acknowledged_pages equals
\* requested_pages, every slot that holds an image has its index in
\* [requested_pages.start - 1, requested_pages.end) or is slot 0 with
\* requested_pages.start <= 1, and at most len(requested_pages) + 1 slots
\* hold an image.
C35_BoundedResidency ==
    AtRest =>
        /\ \A i \in Resident :
              \/ (requested_pages.start - 1 <= i /\ i < requested_pages.end)
              \/ (i = 0 /\ requested_pages.start <= 1)
        /\ Cardinality(Resident) <= RangeLen(requested_pages) + 1
\* C35 witness: at rest, with the page before the requested range and every
\* requested page resident, one image more than the request is long.
C35_BoundAttained ==
    /\ AtRest
    /\ RangeLen(requested_pages) > 0
    /\ Cardinality(Resident) = RangeLen(requested_pages) + 1

\* The indices of a range.
Indices(r) == {i \in 0..(MaxIndex + 1) : RangeContains(r, i)}
\* Index i lies in the smallest range that covers the ranges a and b.
Between(a, b, i) ==
    \E lo, hi \in Indices(a) \cup Indices(b) : lo <= i /\ i <= hi
\* pages_this_frame gains only indices of the range just passed to
\* get_images.
ThisFrameWasVisible ==
    [][TrackedStep =>
          \A i \in Indices(pages_this_frame') :
              RangeContains(last'.arg, i) \/ RangeContains(pages_this_frame, i)
      ]_vars

\* C36 as stated: while the cache lives, pages_this_frame holds only indices
\* passed to get_images in the current frame, and every index of
\* requested_pages is an index of pages_this_frame or of pages_last_frame,
\* the indices passed in the current and in the previous frame.
C36_Original_OnlyVisiblePages ==
    /\ ThisFrameWasVisible
    /\ [](~should_quit =>
            \A i \in Indices(requested_pages) :
                \/ RangeContains(pages_this_frame, i)
                \/ RangeContains(pages_last_frame, i))
\* C36 as amended: pages_this_frame holds only indices passed to get_images
\* in the current frame; every tracked call of get_images leaves in
\* requested_pages only indices of the smallest range that covers
\* pages_this_frame and pages_last_frame; and requested_pages changes in no
\* other step but set_new_pdf and clear, which empty it.
C36_BetweenVisiblePages ==
    /\ ThisFrameWasVisible
    /\ [][TrackedStep =>
            \A i \in Indices(requested_pages') :
                Between(pages_this_frame', pages_last_frame', i)]_vars
    /\ [][requested_pages' # requested_pages =>
            \/ TrackedStep
            \/ /\ last'.op \in {"set_new_pdf", "clear"}
               /\ RangeLen(requested_pages') = 0]_vars
\* C36 witness: a tracked get_images has left in requested_pages a page that
\* lies between the range of this frame and the range of the previous one
\* and in neither.
C36_PageInTheGapRequested ==
    /\ last.op = "get_images"
    /\ ~should_quit
    /\ RangeLen(pages_this_frame) > 0
    /\ RangeLen(pages_last_frame) > 0
    /\ \E i \in Indices(requested_pages) :
          /\ ~RangeContains(pages_this_frame, i)
          /\ ~RangeContains(pages_last_frame, i)

\* The tab that is active, and the tab that was active before the
\* operation just made.
ActiveTab == tabs[active_tab + 1]
ActiveTabBefore == tabs_last.tabs[tabs_last.active + 1]
\* The operation just made removed the only tab.
OnlyTabRemoved ==
    /\ tabs_last.op \in {"remove_tab", "on_action_close_tab"}
    /\ Len(tabs_last.tabs) = 1

\* C37: the tab list is never empty and active_tab is always the index of a
\* tab; removing the only tab leaves that tab in place, empty.
C37_ValidSelection ==
    /\ Len(tabs) >= 1
    /\ active_tab < Len(tabs)
    /\ OnlyTabRemoved =>
          /\ Len(tabs) = 1
          /\ tabs[1] = Tab(tabs_last.tabs[1].id, None)
\* C37 witness: the only tab, which held a file, was removed and is now an
\* empty tab.
C37_OnlyTabReset ==
    /\ OnlyTabRemoved
    /\ tabs_last.tabs[1].data # None
    /\ tabs[1].data = None

\* The operation just made moved a tab or removed a tab that was not the
\* active one.
OtherTabsChanged ==
    \/ tabs_last.op = "on_drop"
    \/ /\ tabs_last.op = "remove_tab"
       /\ tabs_last.arg # tabs_last.active
       /\ tabs_last.arg < Len(tabs_last.tabs)

\* C38: after a drop of one tab on another, and after the removal of a tab
\* other than the active one, active_tab is the index of the tab that was
\* active before; a drop keeps every tab and puts the dragged one at the
\* index of the target.
C38_ActiveTabFollows ==
    /\ OtherTabsChanged => ActiveTab = ActiveTabBefore
    /\ tabs_last.op = "on_drop" =>
          /\ {tabs[k] : k \in 1..Len(tabs)}
                = {tabs_last.tabs[k] : k \in 1..Len(tabs_last.tabs)}
          /\ Len(tabs) = Len(tabs_last.tabs)
          /\ tabs[tabs_last.arg[2] + 1] = tabs_last.tabs[tabs_last.arg[1] + 1]
\* C38 witness: a tab other than the active one was dragged from before the
\* active tab to behind it, and the active tab moved one index down.
C38_DraggedAcrossActive ==
    /\ tabs_last.op = "on_drop"
    /\ tabs_last.arg[1] < tabs_last.active
    /\ tabs_last.arg[2] >= tabs_last.active
    /\ active_tab = tabs_last.active - 1

\* The allocator the innermost call of with_allocator in progress installed,
\* None outside every call.
InstalledByInnermost ==
    IF alloc_stack = <<>> THEN None ELSE Some(InnermostGuard.allocator)

\* C39: the thread's current allocator is always the one the innermost call
\* of with_allocator in progress installed and None outside every call:
\* when a closure returns or unwinds, the allocator that was current before
\* its call is current again.
C39_RestoredInLifoOrder ==
    /\ current_allocator = InstalledByInnermost
    /\ \A k \in 1..Len(alloc_stack) :
          alloc_stack[k].prev =
              IF k = 1 THEN None ELSE Some(alloc_stack[k - 1].allocator)
\* C39 witness: a panic has unwound a call nested in a call that installed
\* another allocator, and the outer call's allocator is current again.
C39_InnerCallUnwound ==
    /\ alloc_last.op = "closure_unwinds"
    /\ alloc_stack # <<>>
    /\ alloc_last.arg # Some(InnermostGuard.allocator)
    /\ current_allocator = Some(InnermostGuard.allocator)

====
